---------------------------- MODULE Spec2Model ----------------------------
(***************************************************************************)
(* Model of the capability-extraction engine of mcp_scraper               *)
(* (src/mcp_scraper/tool_extractor_fixed.py, class EnhancedToolExtractor). *)
(*                                                                         *)
(* Text is a sequence of one-character strings.  A regular-expression      *)
(* search over a file is modelled at the level of its matches: a file's    *)
(* content is the sequence of its declaration sites, each site carrying    *)
(* the rules whose pattern matches there and the text of the capture       *)
(* groups, drawn from the character class of the group.  Everything done   *)
(* with a capture afterwards (strip, name resolution, truth tests,         *)
(* construction of MCPTool / MCPPrompt / MCPResource) is modelled as the   *)
(* code does it.  Tool parameters are not modelled.                        *)
(*                                                                         *)
(* Confidence scores are exact rationals, held as integers in units of     *)
(* 1/Scale (the code computes them in binary floating point).              *)
(***************************************************************************)
EXTENDS Integers, Sequences, FiniteSets, TLC

VARIABLES
    pc,                \* position inside scrape_all / extract_tools_from_server
    server,            \* the MCPServer being processed
    extraction_log,    \* local list extraction_log of _extract_from_github_repo
    log_shared,        \* server.extraction_log is the same list object as extraction_log
    files_processed,   \* local counter files_processed
    nfiles,            \* len(all_files) / len(ts_files + js_files)
    idx,               \* number of files the for loop has visited
    confidence_score,  \* local confidence_score, -1 while unassigned
    readme_content,    \* local readme_content of _extract_from_readme_fallback
    all_files,         \* contents of the files the for loop has visited, in order
    files,             \* list files of _get_all_files_recursive / the globbed paths
    stack,             \* activations of _traverse_directory, innermost last
    extraction_stats,  \* self.extraction_stats
    requests,          \* the remote: number of get_contents calls per directory
    reads,             \* the remote: content retrievals per file, with their outcome
    faults,            \* the remote: number of failures it has produced
    servers,           \* the list servers of scrape_all
    scraped,           \* number of servers the loop of scrape_all has visited
    successful_scrapes, \* local counter successful_scrapes of scrape_all
    failed_scrapes,    \* local counter failed_scrapes of scrape_all
    errors,            \* local list errors of scrape_all
    options,           \* the arguments enhance_metadata, extract_tools, max_servers
    workers,           \* threads sharing the extractor: position and value loaded
    scan_text,         \* content[handler_start:], the text the bracket scan runs over
    scan_pos,          \* i - handler_start of the bracket scan
    bracket_count,     \* local bracket_count of the bracket scan
    tools_section      \* local tools_section, None while unassigned

extractVars == <<pc, server, extraction_log, log_shared, files_processed, nfiles, idx,
                 confidence_score, readme_content, all_files>>

traverseVars == <<files, stack, extraction_stats, requests, reads, faults>>

scrapeVars == <<servers, scraped, successful_scrapes, failed_scrapes, errors, options>>

scanVars == <<scan_text, scan_pos, bracket_count, tools_section>>

vars == <<extractVars, traverseVars, scrapeVars, workers, scanVars>>

---------------------------------------------------------------------------
(* Bounds *)

MaxFiles == 3

MaxScoreTools == 4

MaxScoreFiles == 6

MaxServers == 3

MaxFaults == 3

MaxWorkers == 2

MaxIncrements == 2

MaxText == 5

---------------------------------------------------------------------------
(* Text helpers *)

\* Python None in a string-typed field
None == <<"None">>

WS == {" ", "\n", "\t"}

Quotes == {"\"", "'"}

Min(a, b) == IF a <= b THEN a ELSE b

RECURSIVE LStrip(_, _)
LStrip(s, chars) ==
    IF s /= <<>> /\ Head(s) \in chars THEN LStrip(Tail(s), chars) ELSE s

RECURSIVE RStrip(_, _)
RStrip(s, chars) ==
    IF s /= <<>> /\ s[Len(s)] \in chars
    THEN RStrip(SubSeq(s, 1, Len(s) - 1), chars)
    ELSE s

\* str.strip(chars)
StripChars(s, chars) == RStrip(LStrip(s, chars), chars)

\* str.strip()
Strip(s) == StripChars(s, WS)

\* str.lower() on the letters the model uses
LowerChar(c) ==
    CASE c = "G" -> "g"
      [] c = "M" -> "m"
      [] c = "L" -> "l"
      [] c = "T" -> "t"
      [] c = "D" -> "d"
      [] OTHER -> c

Lower(s) == [i \in 1..Len(s) |-> LowerChar(s[i])]

\* index of the first occurrence of character c in s, 0 when absent
RECURSIVE FindChar(_, _, _)
FindChar(s, c, i) ==
    IF i > Len(s) THEN 0
    ELSE IF s[i] = c THEN i
    ELSE FindChar(s, c, i + 1)

IsSuffix(t, s) ==
    Len(t) <= Len(s) /\ SubSeq(s, Len(s) - Len(t) + 1, Len(s)) = t

RECURSIVE Concat(_)
Concat(ss) == IF ss = <<>> THEN <<>> ELSE Head(ss) \o Concat(Tail(ss))

Truthy(s) == s /= None /\ s /= <<>>

---------------------------------------------------------------------------
(* Declarations (src/mcp_scraper/models.py) *)

MCPTool(name, description) == [name |-> name, description |-> description]

MCPPrompt(name, description) == [name |-> name, description |-> description]

MCPResource(name, description, uri, mime_type) ==
    [name |-> name, description |-> description, uri |-> uri, mime_type |-> mime_type]

---------------------------------------------------------------------------
(* File contents.  A content is                                            *)
(*   [ext, sites, enums, all_resources]                                    *)
(* sites: the places where some extraction pattern matches, in text order, *)
(*   each [rules, name, desc, uri]: the patterns matching there and the    *)
(*   captured groups (uri only for a resourceTemplates block);             *)
(* enums: the "enum X { ... }" blocks, each [name, members], a member      *)
(*   being [member, value] for "member = 'value'";                         *)
(* all_resources: the number captured by the ALL_RESOURCES pattern (0 when *)
(*   the pattern does not match).                                          *)

Site(rules, name, desc) == [rules |-> rules, name |-> name, desc |-> desc, uri |-> None]

\* re.findall(pattern r, text): the sites of the text where r matches, in order
MatchesIn(sites, r) == SelectSeq(sites, LAMBDA s: r \in s.rules)

Matches(content, r) == MatchesIn(content.sites, r)

\* description.strip() if description else None
StripOrNone(d) == IF Truthy(d) THEN Strip(d) ELSE None

\* re.compile raises re.error on a pattern built from unescaped source text
\* whose parentheses do not balance
RECURSIVE CountChar(_, _)
CountChar(s, c) ==
    IF s = <<>> THEN 0
    ELSE (IF Head(s) = c THEN 1 ELSE 0) + CountChar(Tail(s), c)

ReError(text) == CountChar(text, "(") /= CountChar(text, ")")

\* re.search(value_pattern, enum_content): the first member whose text ends
\* with value_name and is assigned a non-empty string literal; 0 when none
RECURSIVE FindMember(_, _, _)
FindMember(members, value_name, i) ==
    IF i > Len(members) THEN 0
    ELSE IF IsSuffix(value_name, members[i].member) /\ Truthy(members[i].value)
         THEN i
    ELSE FindMember(members, value_name, i + 1)

\* re.search(enum_pattern, content): the first enum block of that name with a
\* non-empty body; 0 when none
RECURSIVE FindEnum(_, _, _)
FindEnum(enums, enum_name, i) ==
    IF i > Len(enums) THEN 0
    ELSE IF enums[i].name = enum_name /\ enums[i].members /= <<>> THEN i
    ELSE FindEnum(enums, enum_name, i + 1)

Returned(v) == [raised |-> FALSE, value |-> v]

Raised == [raised |-> TRUE, value |-> None]

\* EnhancedToolExtractor._extract_name_value
_extract_name_value(content, name_expr0) ==
    LET name_expr == Strip(name_expr0) IN
    IF name_expr /= <<>> /\ Head(name_expr) \in Quotes
    THEN Returned(StripChars(name_expr, Quotes))
    ELSE IF FindChar(name_expr, ".", 1) > 0
    THEN LET dot        == FindChar(name_expr, ".", 1)
             enum_name  == SubSeq(name_expr, 1, dot - 1)
             value_name == SubSeq(name_expr, dot + 1, Len(name_expr))
             e          == FindEnum(content.enums, enum_name, 1)
             m          == IF e = 0 THEN 0
                           ELSE FindMember(content.enums[e].members, value_name, 1)
         IN  IF ReError(enum_name) THEN Raised
             ELSE IF e > 0 /\ ReError(value_name) THEN Raised
             ELSE IF m > 0 THEN Returned(content.enums[e].members[m].value)
             ELSE Returned(Lower(value_name))
    ELSE Returned(name_expr)

\* description clean-up of the handler-return rule: drop '+' and quotes,
\* ' '.join(description.split())
RECURSIVE CollapseWS(_, _)
CollapseWS(s, pending) ==
    IF s = <<>> THEN <<>>
    ELSE IF Head(s) \in WS THEN CollapseWS(Tail(s), TRUE)
    ELSE (IF pending THEN <<" ">> ELSE <<>>) \o <<Head(s)>> \o CollapseWS(Tail(s), FALSE)

CleanDescription(d) ==
    LET plus   == [i \in 1..Len(d) |-> IF d[i] = "+" THEN " " ELSE d[i]]
        noq    == SelectSeq(plus, LAMBDA c: c \notin Quotes)
    IN  CollapseWS(LStrip(noq, WS), FALSE)

---------------------------------------------------------------------------
(* Per-language extraction rules *)

Parsed(tools, prompts, resources) ==
    [raised |-> FALSE, tools |-> tools, prompts |-> prompts, resources |-> resources]

ParseRaised == [raised |-> TRUE, tools |-> <<>>, prompts |-> <<>>, resources |-> <<>>]

PlainTool(s) == MCPTool(s.name, None)

PlainPrompt(s) == MCPPrompt(s.name, None)

PlainPrompts(sites) == [i \in 1..Len(sites) |-> PlainPrompt(sites[i])]

PlainTools(sites) == [i \in 1..Len(sites) |-> PlainTool(sites[i])]

DocstringTool(s) == MCPTool(s.name, StripOrNone(s.desc))

DocstringTools(sites) == [i \in 1..Len(sites) |-> DocstringTool(sites[i])]

\* EnhancedToolExtractor._parse_python_content
_parse_python_content(content) ==
    Parsed(DocstringTools(Matches(content, "py_fastmcp"))
             \o DocstringTools(Matches(content, "py_server_tool"))
             \o DocstringTools(Matches(content, "py_tool"))
             \o PlainTools(Matches(content, "py_add_tool")),
           <<>>, <<>>)

\* the struct rule applied before the constant and the literal rules
_parse_go_content_StructFirst(content) ==
    Parsed(PlainTools(Matches(content, "go_struct"))
             \o PlainTools(Matches(content, "go_const"))
             \o PlainTools(Matches(content, "go_direct")),
           <<>>, <<>>)

\* EnhancedToolExtractor._parse_go_content
_parse_go_content(content) ==
    Parsed(PlainTools(Matches(content, "go_const"))
             \o PlainTools(Matches(content, "go_direct"))
             \o PlainTools(Matches(content, "go_struct")),
           <<>>, <<>>)

StructTool(s) == MCPTool(s.name, <<"Tool from ">> \o s.desc \o <<" struct">>)

StructTools(sites) == [i \in 1..Len(sites) |-> StructTool(sites[i])]

\* EnhancedToolExtractor._parse_rust_content
_parse_rust_content(content) ==
    Parsed(StructTools(Matches(content, "rs_struct"))
             \o PlainTools(Matches(content, "rs_fn_tool")),
           PlainPrompts(Matches(content, "rs_fn_prompt")),
           <<>>)

\* a parser that answers from stored state: nothing once a file has been counted
_parse_csharp_content_Stateful(content) ==
    IF files_processed > 0
    THEN Parsed(<<>>, <<>>, <<>>)
    ELSE Parsed(PlainTools(Matches(content, "cs_tool"))
                  \o PlainTools(Matches(content, "cs_mcptool")),
                <<>>, <<>>)

\* EnhancedToolExtractor._parse_csharp_content
_parse_csharp_content(content) ==
    Parsed(PlainTools(Matches(content, "cs_tool"))
             \o PlainTools(Matches(content, "cs_mcptool")),
           <<>>, <<>>)

\* EnhancedToolExtractor._parse_java_content
_parse_java_content(content) ==
    Parsed(PlainTools(Matches(content, "java_tool"))
             \o PlainTools(Matches(content, "java_mcptool")),
           <<>>, <<>>)

\* the loop "for name_expr, description in matches" of the enum-name rules:
\* name resolved by _extract_name_value, the declaration kept "if name"
RECURSIVE ResolvedDecls(_, _)
ResolvedDecls(content, sites) ==
    IF sites = <<>> THEN <<>>
    ELSE LET s == Head(sites)
             r == _extract_name_value(content, s.name)
         IN  (IF Truthy(r.value)
              THEN <<MCPTool(r.value, StripOrNone(s.desc))>>
              ELSE <<>>) \o ResolvedDecls(content, Tail(sites))

ResolveRaises(content, sites) ==
    \E i \in 1..Len(sites): _extract_name_value(content, sites[i].name).raised

\* first match only (re.search)
FirstOf(sites) == IF sites = <<>> THEN <<>> ELSE <<Head(sites)>>

HandlerTool(s) ==
    LET description == CleanDescription(s.desc)
    IN  MCPTool(Strip(s.name), IF Truthy(description) THEN Strip(description) ELSE None)

HandlerTools(sites) == [i \in 1..Len(sites) |-> HandlerTool(sites[i])]

ConstRefTool(s) ==
    LET description == Strip(s.desc)
    IN  MCPTool(Strip(s.name), IF Truthy(description) THEN description ELSE None)

ConstRefTools(sites) == [i \in 1..Len(sites) |-> ConstRefTool(sites[i])]

StrippedTool(s) == MCPTool(Strip(s.name), StripOrNone(s.desc))

StrippedTools(sites) == [i \in 1..Len(sites) |-> StrippedTool(sites[i])]

\* EnhancedToolExtractor._extract_mcp_tools
_extract_mcp_tools(content) ==
    ResolvedDecls(content, Matches(content, "ts_const_tools"))
      \o HandlerTools(Matches(content, "ts_handler"))
      \o ConstRefTools(FirstOf(Matches(content, "ts_const_ref")))
      \o StrippedTools(Matches(content, "ts_tools_array"))
      \o StrippedTools(Matches(content, "ts_export"))

\* EnhancedToolExtractor._extract_mcp_prompts
_extract_mcp_prompts(content) ==
    ResolvedDecls(content, Matches(content, "ts_prompts"))

StaticResource(i) ==
    MCPResource(<<"R", "e", "s", "o", "u", "r", "c", "e", " ", ToString(i)>>,
                <<"Test resource ", ToString(i)>>,
                <<"test://static/resource/", ToString(i)>>,
                IF (i - 1) % 2 = 0 THEN <<"text/plain">> ELSE <<"application/octet-stream">>)

TemplateResource(s) == MCPResource(s.name, s.desc, s.uri, None)

TemplateResources(sites) == [i \in 1..Len(sites) |-> TemplateResource(sites[i])]

\* EnhancedToolExtractor._extract_mcp_resources
_extract_mcp_resources(content) ==
    [i \in 1..content.all_resources |-> StaticResource(i)]
      \o TemplateResources(SelectSeq(FirstOf(Matches(content, "ts_template")),
                       LAMBDA s: s.uri /= None /\ s.name /= None))

\* EnhancedToolExtractor._parse_typescript_content
_parse_typescript_content(content) ==
    IF ResolveRaises(content, Matches(content, "ts_const_tools"))
         \/ ResolveRaises(content, Matches(content, "ts_prompts"))
    THEN ParseRaised
    ELSE Parsed(_extract_mcp_tools(content),
                _extract_mcp_prompts(content),
                _extract_mcp_resources(content))

\* EnhancedToolExtractor._parse_typescript_file: any exception gives [], [], []
_parse_typescript_file(content) ==
    IF _parse_typescript_content(content).raised
    THEN Parsed(<<>>, <<>>, <<>>)
    ELSE _parse_typescript_content(content)

\* the extension dispatch of _extract_from_github_repo
ParseByExtension(content) ==
    CASE content.ext = ".py" -> _parse_python_content(content)
      [] content.ext \in {".js", ".ts"} -> _parse_typescript_content(content)
      [] content.ext = ".go" -> _parse_go_content(content)
      [] content.ext = ".rs" -> _parse_rust_content(content)
      [] content.ext \in {".cs", ".csx"} -> _parse_csharp_content(content)
      [] content.ext = ".java" -> _parse_java_content(content)
      [] OTHER -> Parsed(<<>>, <<>>, <<>>)

---------------------------------------------------------------------------
(* README fallback.  A documentation text is the sequence of its Tools      *)
(* sections (the matches of the section pattern), each the sequence of the  *)
(* list lines in it: sites with rules md_bullet, md_numbered, md_backtick.  *)

GenericWords ==
    { <<"t", "o", "o", "l">>, <<"t", "o", "o", "l", "s">>,
      <<"f", "u", "n", "c", "t", "i", "o", "n">>, <<"m", "e", "t", "h", "o", "d">> }

MarkdownTool(s) == MCPTool(s.name, Strip(s.desc))

MarkdownTools(sites) == [i \in 1..Len(sites) |-> MarkdownTool(sites[i])]

KeepMarkdownName(s) == Len(s.name) > 2 /\ Lower(s.name) \notin GenericWords

SectionTools(section) ==
    MarkdownTools(SelectSeq(MatchesIn(section, "md_bullet"), KeepMarkdownName))
      \o MarkdownTools(SelectSeq(MatchesIn(section, "md_numbered"), KeepMarkdownName))
      \o MarkdownTools(SelectSeq(MatchesIn(section, "md_backtick"), KeepMarkdownName))

\* EnhancedToolExtractor._extract_tools_from_markdown
_extract_tools_from_markdown(doc) == Concat([i \in 1..Len(doc) |-> SectionTools(doc[i])])

---------------------------------------------------------------------------
(* Confidence score, in units of 1/Scale *)

\* 1.0; a multiple of 50 * lcm(1..12), so that every term below is exact for
\* up to 12 tools
Scale == 1386000

\* server.error_message as a truth value
HasError(srv) == srv.error_message /= "None"

\* the base score given without looking at the result
BaseScore_Unconditional(srv) == Scale \div 2

BaseScore(srv) ==
    IF srv.tools /= <<>> \/ srv.prompts /= <<>> \/ srv.resources /= <<>>
    THEN Scale \div 2 ELSE 0

\* the tool bonus capped at 0.1 instead of 0.3
ToolBonus_LowCap(tool_count) ==
    IF tool_count > 0 THEN Min(Scale \div 10, tool_count * (Scale \div 10)) ELSE 0

ToolBonus(tool_count) ==
    IF tool_count > 0 THEN Min((3 * Scale) \div 10, tool_count * (Scale \div 10)) ELSE 0

DescriptionBonus(tools) ==
    LET tool_count == Len(tools)
        tools_with_descriptions ==
            Cardinality({i \in 1..tool_count : Truthy(tools[i].description)})
    IN  IF tool_count > 0
        THEN (tools_with_descriptions * (Scale \div 5)) \div tool_count
        ELSE 0

\* the file bonus given from the first file on
FileBonus_NoThreshold(fp) == Min(Scale \div 10, fp * (Scale \div 50))

FileBonus(fp) ==
    IF fp > 1 THEN Min(Scale \div 10, fp * (Scale \div 50)) ELSE 0

Penalty(srv, confidence) ==
    IF HasError(srv) THEN (confidence * 7) \div 10 ELSE confidence

\* the score returned without the final min(1.0, confidence)
_calculate_extraction_confidence_Unclamped(srv, fp) ==
    Penalty(srv, BaseScore(srv) + ToolBonus(Len(srv.tools))
                   + DescriptionBonus(srv.tools) + FileBonus(fp))

\* EnhancedToolExtractor._calculate_extraction_confidence
_calculate_extraction_confidence(srv, fp) ==
    Min(Scale,
        Penalty(srv, BaseScore(srv) + ToolBonus(Len(srv.tools))
                       + DescriptionBonus(srv.tools) + FileBonus(fp)))

\* f"{confidence_score:.2f}": the score rounded to hundredths
Format2f(score) == ToString((score * 100 + Scale \div 2) \div Scale)

---------------------------------------------------------------------------
(* Inputs: file contents and documentation texts *)

Content(ext, sites, enums, all_resources) ==
    [ext |-> ext, sites |-> sites, enums |-> enums, all_resources |-> all_resources]

\* enum G { L_M = "l", M = "v" }
EnumG ==
    [name |-> <<"G">>,
     members |-> << [member |-> <<"L", "_", "M">>, value |-> <<"l">>],
                    [member |-> <<"M">>, value |-> <<"v">>] >>]

\* two @mcp.tool() functions with docstrings
PyTwoTools ==
    Content(".py", << Site({"py_fastmcp"}, <<"f">>, <<" ", "d">>),
                      Site({"py_fastmcp"}, <<"g">>, <<"e">>) >>, <<>>, 0)

\* server.add_tool("a")
PyAddTool == Content(".py", << Site({"py_add_tool"}, <<"a">>, <<>>) >>, <<>>, 0)

\* a module without declarations
PyEmpty == Content(".py", <<>>, <<>>, 0)

\* s.AddTool(" ")
GoBlank == Content(".go", << Site({"go_direct"}, <<" ">>, <<>>) >>, <<>>, 0)

\* const tools: Tool[] = [{ name: G.M, description: "d" }] and a prompts handler
TsEnum ==
    Content(".ts", << Site({"ts_const_tools"}, <<"G", ".", "M">>, <<"d">>),
                      Site({"ts_prompts"}, <<"\"", "p", "\"">>, <<>>) >>,
            <<EnumG>>, 0)

\* const tools: Tool[] = [{ name: G(.M, description: "d" }]
TsBadExpr ==
    Content(".ts", << Site({"ts_const_tools"}, <<"G", "(", ".", "M">>, <<"d">>) >>,
            <<EnumG>>, 0)

\* const tools with name: "" and a handler returning tools: [{ name: " ", ... }]
TsBlank ==
    Content(".ts", << Site({"ts_const_tools"}, <<"\"", "\"">>, <<"d">>),
                      Site({"ts_handler"}, <<" ">>, <<"\"", "d", "\"", " ", "+">>) >>,
            <<>>, 0)

\* const ALL_RESOURCES = Array.from({ length: 2 ...
JsResources == Content(".js", <<>>, <<>>, 2)

\* #[mcp::prompt] fn q
RsPrompt == Content(".rs", << Site({"rs_fn_prompt"}, <<"q">>, <<>>) >>, <<>>, 0)

\* [Tool] public Task c(
CsTool == Content(".cs", << Site({"cs_tool"}, <<"c">>, <<>>) >>, <<>>, 0)

\* @Tool public String j(
JavaTool == Content(".java", << Site({"java_tool"}, <<"j">>, <<>>) >>, <<>>, 0)

\* a .tsx file declaring a tool: passes the file filter, has no parser
TsxTool == Content(".tsx", << Site({"ts_export"}, <<"x">>, <<"d">>) >>, <<>>, 0)

\* type ZTool struct { Name: "z" }, then const ETool = "e" registered by
\* s.AddTool(ETool) and repeated in type ETool struct { Name: "e" }
GoTwice ==
    Content(".go", << Site({"go_struct"}, <<"z">>, <<>>),
                      Site({"go_const", "go_struct"}, <<"e">>, <<>>) >>, <<>>, 0)

SampleFiles ==
    { PyTwoTools, PyAddTool, PyEmpty, GoBlank, GoTwice, TsEnum, TsBadExpr, TsBlank,
      JsResources, RsPrompt, CsTool, JavaTool, TsxTool }

\* the files server_path.glob("**/*.ts") and glob("**/*.js") can return
ReferenceFiles == { f \in SampleFiles : f.ext \in {".ts", ".js"} }

\* documentation without a Tools section
DocNoTools == <<>>

\* ## Tools / - abc: d
DocOneTool == << << Site({"md_bullet"}, <<"a", "b", "c">>, <<"d">>) >> >>

\* ## Tools / - ab: d / - Tool: d
DocExcluded ==
    << << Site({"md_bullet"}, <<"a", "b">>, <<"d">>),
          Site({"md_bullet"}, <<"T", "o", "o", "l">>, <<"d">>) >> >>

\* ## Tools / - `abc`: d
DocBacktick == << << Site({"md_bullet", "md_backtick"}, <<"a", "b", "c">>, <<"d">>) >> >>

SampleDocs == { DocNoTools, DocOneTool, DocExcluded, DocBacktick }

\* what _get_readme_content can do: raise a non-GitHub exception, return
\* None (no README found) or return the text
Readme(state, doc) == [state |-> state, doc |-> doc]

ReadmeOutcomes ==
    { Readme("raised", <<>>), Readme("None", <<>>) }
      \cup { Readme("text", d) : d \in SampleDocs }

---------------------------------------------------------------------------
(* State *)

\* Python None in a list-typed field
NoneList == <<None>>

NewServer(server_type, error_message) ==
    [server_type |-> server_type, error_message |-> error_message,
     tools |-> <<>>, prompts |-> <<>>, resources |-> <<>>,
     extraction_log |-> NoneList]

\* no thread other than the caller's uses the extractor
NoWorkers == workers = <<>>

\* the variables of the bracket scan outside _extract_mcp_tools
NoScan ==
    /\ scan_text = <<>>
    /\ scan_pos = 0
    /\ bracket_count = 0
    /\ tools_section = None

\* the traversal variables outside a run of _get_all_files_recursive
NoTraversal ==
    /\ files = <<>>
    /\ stack = <<>>
    /\ extraction_stats = [total_files_processed |-> 0, successful_extractions |-> 0,
                           failed_extractions |-> 0,
                           rate_limit_hits |-> 0]
    /\ requests = <<>>
    /\ reads = <<>>
    /\ faults = 0

\* the arguments of scrape_all; max_servers is <<>> for None, <<n>> for n
Options(enhance_metadata, extract_tools, max_servers) ==
    [enhance_metadata |-> enhance_metadata, extract_tools |-> extract_tools,
     max_servers |-> max_servers]

\* the variables of scrape_all outside a run of scrape_all
NoScrape ==
    /\ servers = <<>>
    /\ scraped = 0
    /\ successful_scrapes = 0
    /\ failed_scrapes = 0
    /\ errors = <<>>
    /\ options = Options(TRUE, TRUE, <<>>)

\* a server as the registry parser builds it, after GitHubCrawler.enhance_server
Init ==
    /\ pc = "start"
    /\ \E t \in {"reference", "third_party"},
          e \in {"None", "Error enhancing server metadata"}:
           server = NewServer(t, e)
    /\ extraction_log = <<>>
    /\ log_shared = FALSE
    /\ files_processed = 0
    /\ nfiles = 0
    /\ idx = 0
    /\ confidence_score = -1
    /\ readme_content = Readme("unfetched", <<>>)
    /\ all_files = <<>>
    /\ NoTraversal
    /\ NoScrape
    /\ NoWorkers
    /\ NoScan

AllEmpty(srv) == srv.tools = <<>> /\ srv.prompts = <<>> /\ srv.resources = <<>>

\* list.append on the local extraction_log; server.extraction_log sees it
\* when it is the same list
AppendLocalLog(srv, entry) ==
    IF log_shared
    THEN [srv EXCEPT !.extraction_log = Append(extraction_log, entry)]
    ELSE srv

\* the handler "except Exception" of extract_tools_from_server and of
\* _extract_from_github_repo
RecordError(srv, message) ==
    IF ~HasError(srv) THEN [srv EXCEPT !.error_message = message] ELSE srv

---------------------------------------------------------------------------
(* extract_tools_from_server, third-party branch: _extract_from_github_repo *)

\* _parse_github_url returns None: return server
GithubInvalidUrl ==
    /\ pc = "start"
    /\ server.server_type /= "reference"
    /\ pc' = "returned"
    /\ UNCHANGED <<server, extraction_log, log_shared, files_processed, nfiles, idx,
                   confidence_score, readme_content>>
    /\ UNCHANGED <<all_files, traverseVars, scrapeVars>>
    /\ UNCHANGED <<workers, scanVars>>

\* get_repo or _get_all_files_recursive raises: the except clause of
\* _extract_from_github_repo
GithubSetupRaises ==
    /\ pc = "start"
    /\ server.server_type /= "reference"
    /\ server' = RecordError(server, "Error extracting from GitHub")
    /\ pc' = "returned"
    /\ UNCHANGED <<extraction_log, log_shared, files_processed, nfiles, idx,
                   confidence_score, readme_content>>
    /\ UNCHANGED <<all_files, traverseVars, scrapeVars>>
    /\ UNCHANGED <<workers, scanVars>>

\* all_files = self._get_all_files_recursive(repo, subpath); extraction_log = [];
\* files_processed = 0
GithubListFiles ==
    /\ pc = "start"
    /\ server.server_type /= "reference"
    /\ \E n \in 0..MaxFiles: nfiles' = n
    /\ extraction_log' = <<>>
    /\ files_processed' = 0
    /\ idx' = 0
    /\ pc' = "gh_loop"
    /\ UNCHANGED <<server, log_shared, confidence_score, readme_content>>
    /\ UNCHANGED <<all_files, traverseVars, scrapeVars>>
    /\ UNCHANGED <<workers, scanVars>>

ExtractedEntry(path, r) ==
    <<"Extracted from ", path, ": ", ToString(Len(r.tools)), " tools, ",
      ToString(Len(r.prompts)), " prompts, ", ToString(Len(r.resources)), " resources">>

ErrorEntry(path) == <<"Error parsing ", path, ": ", "re.error">>

\* if tools or prompts or resources
LogsFile(r) == r.tools /= <<>> \/ r.prompts /= <<>> \/ r.resources /= <<>>

\* one pass of "for file_info in all_files" over a file of content f
ProcessFileContent(f) ==
    LET r    == ParseByExtension(f)
        path == ToString(idx + 1)
    IN  IF r.raised
        THEN /\ extraction_log' = Append(extraction_log, ErrorEntry(path))
             /\ UNCHANGED <<server, files_processed>>
        ELSE /\ extraction_log' =
                    IF LogsFile(r)
                    THEN Append(extraction_log, ExtractedEntry(path, r))
                    ELSE extraction_log
             /\ server' = [server EXCEPT !.tools = @ \o r.tools,
                                         !.prompts = @ \o r.prompts,
                                         !.resources = @ \o r.resources]
             /\ files_processed' = files_processed + 1

GithubProcessFile ==
    /\ pc = "gh_loop"
    /\ idx < nfiles
    /\ \E f \in SampleFiles:
         /\ all_files' = Append(all_files, f)
         /\ ProcessFileContent(f)
    /\ idx' = idx + 1
    /\ UNCHANGED <<pc, log_shared, nfiles, confidence_score, readme_content>>
    /\ UNCHANGED <<traverseVars, scrapeVars>>
    /\ UNCHANGED <<workers, scanVars>>

\* if extraction_log: server.extraction_log = extraction_log
GithubAttachLog ==
    /\ pc = "gh_loop"
    /\ idx = nfiles
    /\ IF extraction_log /= <<>>
       THEN /\ server' = [server EXCEPT !.extraction_log = extraction_log]
            /\ log_shared' = TRUE
       ELSE UNCHANGED <<server, log_shared>>
    /\ pc' = "gh_score"
    /\ UNCHANGED <<extraction_log, files_processed, nfiles, idx, confidence_score,
                   readme_content>>
    /\ UNCHANGED <<all_files, traverseVars, scrapeVars>>
    /\ UNCHANGED <<workers, scanVars>>

ScoreEntry(score) == <<"Extraction confidence score: ", Format2f(score), "/1.0">>

\* confidence_score = self._calculate_extraction_confidence(server, files_processed)
\* extraction_log.append(...)
GithubScore ==
    /\ pc = "gh_score"
    /\ LET score == _calculate_extraction_confidence(server, files_processed)
       IN  /\ confidence_score' = score
           /\ extraction_log' = Append(extraction_log, ScoreEntry(score))
           /\ server' = AppendLocalLog(server, ScoreEntry(score))
    /\ pc' = "gh_fallback_check"
    /\ UNCHANGED <<log_shared, files_processed, nfiles, idx, readme_content>>
    /\ UNCHANGED <<all_files, traverseVars, scrapeVars>>
    /\ UNCHANGED <<workers, scanVars>>

\* the fallback test looking at the tools only
FallbackCondition_ToolsOnly(srv) == srv.tools = <<>>

\* if not server.tools and not server.prompts and not server.resources
FallbackCondition(srv) == AllEmpty(srv)

GithubFallbackCheck ==
    /\ pc = "gh_fallback_check"
    /\ pc' = IF FallbackCondition(server) THEN "readme_fallback" ELSE "returned"
    /\ UNCHANGED <<server, extraction_log, log_shared, files_processed, nfiles, idx,
                   confidence_score, readme_content>>
    /\ UNCHANGED <<all_files, traverseVars, scrapeVars>>
    /\ UNCHANGED <<workers, scanVars>>

ReadmeEntry(tools) == <<"Extracted ", ToString(Len(tools)), " tools from README fallback">>

\* _extract_from_readme_fallback, entered at pc = "readme_fallback"
ReadmeFallback ==
    /\ pc = "readme_fallback"
    /\ \E r \in ReadmeOutcomes:
         /\ readme_content' = r
         /\ IF r.state /= "text"
            THEN UNCHANGED <<server, extraction_log, log_shared>>
            ELSE LET tools == _extract_tools_from_markdown(r.doc)
                     keep  == server.extraction_log /= NoneList
                                /\ server.extraction_log /= <<>>
                     log   == IF keep THEN server.extraction_log ELSE <<>>
                 IN  IF tools = <<>>
                     THEN UNCHANGED <<server, extraction_log, log_shared>>
                     ELSE /\ server' =
                               [server EXCEPT
                                  !.tools = @ \o tools,
                                  !.extraction_log = Append(log, ReadmeEntry(tools))]
                          /\ log_shared' = (keep /\ log_shared)
                          /\ extraction_log' =
                               IF keep /\ log_shared
                               THEN Append(extraction_log, ReadmeEntry(tools))
                               ELSE extraction_log
    /\ pc' = "returned"
    /\ UNCHANGED <<files_processed, nfiles, idx, confidence_score>>
    /\ UNCHANGED <<all_files, traverseVars, scrapeVars>>
    /\ UNCHANGED <<workers, scanVars>>

---------------------------------------------------------------------------
(* extract_tools_from_server, reference branch: _extract_from_reference_server *)

\* if not server_path.exists(): server.error_message = ...; return server
ReferenceMissing ==
    /\ pc = "start"
    /\ server.server_type = "reference"
    /\ server' = [server EXCEPT !.error_message = "Reference server directory not found"]
    /\ pc' = "returned"
    /\ UNCHANGED <<extraction_log, log_shared, files_processed, nfiles, idx,
                   confidence_score, readme_content>>
    /\ UNCHANGED <<all_files, traverseVars, scrapeVars>>
    /\ UNCHANGED <<workers, scanVars>>

\* exists() or glob() raises: the except clause of extract_tools_from_server
ReferenceListRaises ==
    /\ pc = "start"
    /\ server.server_type = "reference"
    /\ server' = RecordError(server, "Error extracting tools")
    /\ pc' = "returned"
    /\ UNCHANGED <<extraction_log, log_shared, files_processed, nfiles, idx,
                   confidence_score, readme_content>>
    /\ UNCHANGED <<all_files, traverseVars, scrapeVars>>
    /\ UNCHANGED <<workers, scanVars>>

\* ts_files = list(glob("**/*.ts")); js_files = list(glob("**/*.js"))
ReferenceListFiles ==
    /\ pc = "start"
    /\ server.server_type = "reference"
    /\ \E n \in 0..MaxFiles: nfiles' = n
    /\ idx' = 0
    /\ pc' = "ref_loop"
    /\ UNCHANGED <<server, extraction_log, log_shared, files_processed,
                   confidence_score, readme_content>>
    /\ UNCHANGED <<all_files, traverseVars, scrapeVars>>
    /\ UNCHANGED <<workers, scanVars>>

\* one pass of "for ts_file in ts_files + js_files"
ReferenceProcessFile ==
    /\ pc = "ref_loop"
    /\ idx < nfiles
    /\ \E f \in ReferenceFiles:
         LET r == _parse_typescript_file(f)
         IN  /\ all_files' = Append(all_files, f)
             /\ server' = [server EXCEPT !.tools = @ \o r.tools,
                                          !.prompts = @ \o r.prompts,
                                          !.resources = @ \o r.resources]
    /\ idx' = idx + 1
    /\ UNCHANGED <<pc, extraction_log, log_shared, files_processed, nfiles,
                   confidence_score, readme_content>>
    /\ UNCHANGED <<traverseVars, scrapeVars>>
    /\ UNCHANGED <<workers, scanVars>>

\* return server
ReferenceReturn ==
    /\ pc = "ref_loop"
    /\ idx = nfiles
    /\ pc' = "returned"
    /\ UNCHANGED <<server, extraction_log, log_shared, files_processed, nfiles, idx,
                   confidence_score, readme_content>>
    /\ UNCHANGED <<all_files, traverseVars, scrapeVars>>
    /\ UNCHANGED <<workers, scanVars>>

Next ==
    \/ GithubInvalidUrl
    \/ GithubSetupRaises
    \/ GithubListFiles
    \/ GithubProcessFile
    \/ GithubAttachLog
    \/ GithubScore
    \/ GithubFallbackCheck
    \/ ReadmeFallback
    \/ ReferenceMissing
    \/ ReferenceListRaises
    \/ ReferenceListFiles
    \/ ReferenceProcessFile
    \/ ReferenceReturn

Spec == Init /\ [][Next]_vars

---------------------------------------------------------------------------
(* The scorer on arbitrary inputs: every server and file count line 128 can *)
(* pass to _calculate_extraction_confidence, within the bounds              *)

DescribedTool == MCPTool(<<"a">>, <<"d">>)

BareTool == MCPTool(<<"b">>, None)

ScoreToolLists ==
    UNION { [1..n -> {DescribedTool, BareTool}] : n \in 0..MaxScoreTools }

InitScore ==
    /\ pc = "gh_score"
    /\ \E e \in {"None", "Error enhancing server metadata"},
          t \in ScoreToolLists,
          p \in {<<>>, <<MCPPrompt(<<"q">>, None)>>},
          r \in {<<>>, <<StaticResource(1)>>}:
           server = [NewServer("third_party", e) EXCEPT
                       !.tools = t, !.prompts = p, !.resources = r]
    /\ extraction_log = <<>>
    /\ log_shared = FALSE
    /\ files_processed \in 0..MaxScoreFiles
    /\ nfiles = files_processed
    /\ idx = files_processed
    /\ confidence_score = -1
    /\ readme_content = Readme("unfetched", <<>>)
    /\ all_files = <<>>
    /\ NoTraversal
    /\ NoScrape
    /\ NoWorkers
    /\ NoScan

NextScore == GithubScore

SpecScore == InitScore /\ [][NextScore]_vars

---------------------------------------------------------------------------
(* Properties *)

Names(decls) == {decls[i].name : i \in 1..Len(decls)}

\* the number of entries of a log that start with the given words
CountEntries(log, first) == Cardinality({i \in 1..Len(log) : log[i][1] = first})

\* the score has just been computed from the server as it stands
Scored == pc = "gh_fallback_check"

\* C1: every tool, prompt and resource appended to the server has a name that
\* is non-empty after stripping whitespace.
C1_NamesNonBlank ==
    \A n \in Names(server.tools) \cup Names(server.prompts) \cup Names(server.resources):
        Strip(n) /= <<>>

\* C2: the README fallback is entered only when every file has been processed
\* and tools, prompts and resources are all empty; once it has run, whatever the
\* server holds came from the README alone.
C2_FallbackOnlyWhenEmpty ==
    /\ pc = "readme_fallback" => idx = nfiles /\ AllEmpty(server)
    /\ readme_content.state /= "unfetched" =>
         /\ server.prompts = <<>>
         /\ server.resources = <<>>
         /\ server.tools = IF readme_content.state = "text"
                           THEN _extract_tools_from_markdown(readme_content.doc)
                           ELSE <<>>

C2_Witness ==
    pc = "readme_fallback" /\ nfiles >= 2 /\ files_processed < nfiles

\* C3: for a reference or a third-party server, when the loop over the source
\* files has finished and tools, prompts and resources are all empty at the
\* return, the README fallback has been invoked.
C3_EmptyTriggersFallback ==
    (pc = "returned" /\ nfiles > 0 /\ idx = nfiles /\ AllEmpty(server))
        => readme_content.state /= "unfetched"

\* C4: the confidence score a call computed is the score of the server's final
\* tools, prompts and resources.
C4_ScoreFromFinalResult ==
    (pc = "returned" /\ confidence_score /= -1)
        => confidence_score = _calculate_extraction_confidence(server, files_processed)

\* C5: the confidence score lies in [0, 1].
C5_ConfidenceInUnitInterval ==
    confidence_score /= -1 => 0 <= confidence_score /\ confidence_score <= Scale

C5_Witness ==
    /\ Scored
    /\ Len(server.tools) >= 3
    /\ \A i \in 1..Len(server.tools): Truthy(server.tools[i].description)
    /\ files_processed >= 5
    /\ ~HasError(server)
    /\ confidence_score = Scale

\* C6: the score of a server with a recorded error is exactly 0.7 times the
\* score of the same server without the error.
C6_ErrorPenaltyExact ==
    (Scored /\ HasError(server))
        => 10 * confidence_score =
             7 * _calculate_extraction_confidence(
                     [server EXCEPT !.error_message = "None"], files_processed)

ScoreWithFileComponent(srv, component) ==
    Min(Scale,
        Penalty(srv, BaseScore(srv) + ToolBonus(Len(srv.tools))
                       + DescriptionBonus(srv.tools) + component))

\* the files of the loop that contributed at least one declaration
ContributingFiles == CountEntries(extraction_log, "Extracted from ")

\* the files of the loop that were parsed without an exception
ParsedFiles == idx - CountEntries(extraction_log, "Error parsing ")

\* C8 as claimed: the file component is min(0.1, 0.02 * k), k the number of
\* files that contributed at least one declaration.
C8_FileComponentContributing ==
    Scored => confidence_score =
                ScoreWithFileComponent(server,
                    Min(Scale \div 10, ContributingFiles * (Scale \div 50)))

\* C8 as amended: the file component is min(0.1, 0.02 * n) for n > 1 and 0 for
\* n <= 1, n the number of files parsed without an exception, whether or not
\* they contributed a declaration.
C8_FileComponentProcessed ==
    Scored => confidence_score =
                ScoreWithFileComponent(server,
                    IF ParsedFiles > 1
                    THEN Min(Scale \div 10, ParsedFiles * (Scale \div 50))
                    ELSE 0)

C8_Witness ==
    Scored /\ ParsedFiles = 2 /\ ContributingFiles = 1 /\ nfiles = 3

\* no error recorded, no file produced a declaration or a parse error, and the
\* documentation has no Tools section
EmptyRun ==
    /\ pc = "returned"
    /\ ~HasError(server)
    /\ extraction_log = <<ScoreEntry(confidence_score)>>
    /\ readme_content = Readme("text", DocNoTools)

\* C9 as claimed: such a run, over any number of files, ends with empty tools,
\* prompts and resources and the score 0.0.
C9_EmptyRunScoresZero ==
    EmptyRun => AllEmpty(server) /\ confidence_score = 0

\* C9 as amended: such a run ends with empty tools, prompts and resources; the
\* score is 0.0 when at most one file was processed and min(0.1, 0.02 * n)
\* when n > 1 files were processed.
C9_EmptyRunScore ==
    EmptyRun =>
        /\ AllEmpty(server)
        /\ confidence_score =
             IF nfiles > 1 THEN Min(Scale \div 10, nfiles * (Scale \div 50)) ELSE 0

C9_Witness == EmptyRun /\ nfiles = 1 /\ confidence_score = 0

\* C10: when the call returns, the score it computed is in server.extraction_log.
C10_ScoreInServerLog ==
    (pc = "returned" /\ confidence_score /= -1)
        => /\ server.extraction_log /= NoneList
           /\ \E i \in 1..Len(server.extraction_log):
                 server.extraction_log[i] = ScoreEntry(confidence_score)

---------------------------------------------------------------------------
(* Properties of the file loop *)

\* the rules the parser selected for an extension applies
LanguageRules(ext) ==
    CASE ext = ".py" -> {"py_fastmcp", "py_server_tool", "py_tool", "py_add_tool"}
      [] ext = ".go" -> {"go_const", "go_direct", "go_struct"}
      [] ext = ".rs" -> {"rs_struct", "rs_fn_tool", "rs_fn_prompt"}
      [] ext = ".cs" -> {"cs_tool", "cs_mcptool"}
      [] ext = ".java" -> {"java_tool", "java_mcptool"}
      [] ext \in {".ts", ".js"} ->
           {"ts_const_tools", "ts_handler", "ts_const_ref", "ts_tools_array",
            "ts_export", "ts_prompts", "ts_template"}
      [] OTHER -> {}

\* no pattern of the file's parser matches anywhere in the file
NoRuleMatches(f) ==
    /\ \A i \in 1..Len(f.sites): f.sites[i].rules \cap LanguageRules(f.ext) = {}
    /\ f.all_resources = 0

\* this step is one pass of the loop "for file_info in all_files"
FilePass == pc = "gh_loop" /\ idx' = idx + 1

DeclarationsUnchanged ==
    /\ server'.tools = server.tools
    /\ server'.prompts = server.prompts
    /\ server'.resources = server.resources

\* C11 as stated: a pass over a file in which no rule matches leaves the
\* server's tools, prompts and resources unchanged and appends exactly one
\* entry to the extraction log.
C11_NoMatchOneEntry ==
    [][(FilePass /\ NoRuleMatches(all_files'[idx']))
         => (DeclarationsUnchanged
               /\ Len(extraction_log') = Len(extraction_log) + 1)]_vars

\* what the loop does instead: such a pass leaves the declarations and the
\* extraction log unchanged and counts the file in files_processed
NoMatchNoEntry ==
    [][(FilePass /\ NoRuleMatches(all_files'[idx']))
         => (DeclarationsUnchanged
               /\ extraction_log' = extraction_log
               /\ files_processed' = files_processed + 1)]_vars

\* a file without a match has been passed and the log is still empty
C11_Witness ==
    /\ pc = "gh_loop"
    /\ idx >= 1
    /\ NoRuleMatches(all_files[idx])
    /\ files_processed = idx
    /\ extraction_log = <<>>

\* the tool rules of the languages whose rules keep every match, in the
\* order the parser applies them
ToolRuleOrder(ext) ==
    CASE ext = ".py" -> <<"py_fastmcp", "py_server_tool", "py_tool", "py_add_tool">>
      [] ext = ".go" -> <<"go_const", "go_direct", "go_struct">>
      [] ext = ".rs" -> <<"rs_struct", "rs_fn_tool">>
      [] ext = ".cs" -> <<"cs_tool", "cs_mcptool">>
      [] ext = ".java" -> <<"java_tool", "java_mcptool">>
      [] OTHER -> <<>>

NameSeq(decls) == [i \in 1..Len(decls) |-> decls[i].name]

\* the names captured by each rule in turn, every match kept
NamesInRuleOrder(f) ==
    LET order == ToolRuleOrder(f.ext)
    IN  Concat([k \in 1..Len(order) |-> NameSeq(MatchesIn(f.sites, order[k]))])

\* what one pass of the loop adds to server.tools
FileOutput(f) ==
    IF pc = "ref_loop" THEN _parse_typescript_file(f).tools
    ELSE IF ParseByExtension(f).raised THEN <<>>
    ELSE ParseByExtension(f).tools

InFileLoop == pc \in {"gh_loop", "gh_score", "gh_fallback_check", "ref_loop"}

\* C12: after the loop has passed f1..fn, server.tools is the initial (empty)
\* list followed by the output for f1, ..., fn in that order; for the
\* languages whose rules keep every match the output for a file is the
\* concatenation of each rule's matches in rule order, so that a declaration
\* matched by k rules appears k times and nothing is deduplicated.
C12_ToolsInTraversalOrder ==
    InFileLoop =>
      /\ server.tools = Concat([i \in 1..Len(all_files) |-> FileOutput(all_files[i])])
      /\ \A i \in 1..Len(all_files):
           all_files[i].ext \in {".py", ".go", ".rs", ".cs", ".java"}
             => NameSeq(FileOutput(all_files[i])) = NamesInRuleOrder(all_files[i])

\* two files passed, the second with a declaration matched by two rules:
\* its name appears twice, after the tools of the first file
C12_Witness ==
    /\ pc = "gh_loop"
    /\ all_files = <<PyTwoTools, GoTwice>>
    /\ NameSeq(server.tools) = << <<"f">>, <<"g">>, <<"e">>, <<"z">>, <<"e">> >>

\* the number a log entry prints
Printed(str) == CHOOSE n \in 0..9: ToString(n) = str

\* the counts the log records for pass i: the numbers of its "Extracted from"
\* entry, 0 when the pass left no such entry
LoggedCount(i, field) ==
    LET entries == SelectSeq(extraction_log,
                             LAMBDA e: e[1] = "Extracted from " /\ e[2] = ToString(i))
    IN  IF entries = <<>> THEN 0 ELSE Printed(entries[1][field])

RECURSIVE LoggedBefore(_, _)
LoggedBefore(i, field) ==
    IF i <= 1 THEN 0 ELSE LoggedBefore(i - 1, field) + LoggedCount(i - 1, field)

\* the part of a list of the server that pass i added, located by the log
Segment(list, i, field) ==
    SubSeq(list, LoggedBefore(i, field) + 1,
           LoggedBefore(i, field) + LoggedCount(i, field))

---------------------------------------------------------------------------
(* Properties of _extract_name_value, on the name expressions of the files *)
(* the loop has passed                                                     *)

\* the name expressions the enum-name rules captured in the visited files
NameExprs ==
    UNION { { <<all_files[i], all_files[i].sites[k].name>> :
                k \in { k \in 1..Len(all_files[i].sites) :
                          all_files[i].sites[k].rules
                            \cap {"ts_const_tools", "ts_prompts"} /= {} } } :
            i \in { i \in 1..Len(all_files) : all_files[i].ext \in {".ts", ".js"} } }

EnumPart(name_expr) == SubSeq(name_expr, 1, FindChar(name_expr, ".", 1) - 1)

MemberPart(name_expr) ==
    SubSeq(name_expr, FindChar(name_expr, ".", 1) + 1, Len(name_expr))

\* a qualified name expression G.M
Qualified(name_expr) ==
    /\ Strip(name_expr) /= <<>>
    /\ Head(Strip(name_expr)) \notin Quotes
    /\ FindChar(Strip(name_expr), ".", 1) > 0

\* the string literals the enum blocks named G of the text assign to the
\* member named exactly M
ExactValues(content, name_expr) ==
    LET blocks  == { content.enums[e] : e \in 1..Len(content.enums) }
        named   == { b \in blocks : b.name = EnumPart(Strip(name_expr)) }
        members == UNION { { b.members[m] : m \in 1..Len(b.members) } : b \in named }
    IN  { x.value : x \in { y \in members : y.member = MemberPart(Strip(name_expr))
                                               /\ Truthy(y.value) } }

\* C14: for a qualified name G.M and a text with an enum block G in which
\* member M is assigned a string literal, _extract_name_value returns the
\* string assigned to exactly M, also when another member's name contains M.
C14_ExactMemberValue ==
    \A x \in NameExprs:
      (Qualified(x[2]) /\ ExactValues(x[1], x[2]) /= {})
        => /\ ~_extract_name_value(x[1], x[2]).raised
           /\ _extract_name_value(x[1], x[2]).value \in ExactValues(x[1], x[2])

\* C15: _extract_name_value raises for no name expression the tool and
\* prompt rules can capture; without a matching definition a qualified name
\* gives the lowercased member name.
C15_NeverRaises ==
    \A x \in NameExprs:
      /\ ~_extract_name_value(x[1], x[2]).raised
      /\ (Qualified(x[2]) /\ FindEnum(x[1].enums, EnumPart(Strip(x[2])), 1) = 0)
           => _extract_name_value(x[1], x[2]).value = Lower(MemberPart(Strip(x[2])))

---------------------------------------------------------------------------
(* scrape_all (src/mcp_scraper/scraper.py): the batch loop over the servers *)
(* of the registry.  The calls it makes on a server are taken by their      *)
(* effect on the two fields the loop reads, is_accessible and error_message *)

\* a server as RegistryParser builds it
RegistryServer(server_type) ==
    [server_type |-> server_type, is_accessible |-> TRUE, error_message |-> "None"]

\* what parse_registry can return
Registries ==
    UNION { [1..n -> {RegistryServer("reference"), RegistryServer("third_party")}] :
              n \in 0..MaxServers }

InitScrape ==
    /\ pc = "scrape_parse"
    /\ servers \in Registries
    /\ \E e \in BOOLEAN, x \in BOOLEAN,
          m \in {<<>>} \cup { <<n>> : n \in 0..MaxServers + 1 }:
           options = Options(e, x, m)
    /\ scraped = 0
    /\ successful_scrapes = 0
    /\ failed_scrapes = 0
    /\ errors = <<>>
    /\ server = NewServer("third_party", "None")
    /\ extraction_log = <<>>
    /\ log_shared = FALSE
    /\ files_processed = 0
    /\ nfiles = 0
    /\ idx = 0
    /\ confidence_score = -1
    /\ readme_content = Readme("unfetched", <<>>)
    /\ all_files = <<>>
    /\ NoTraversal
    /\ NoWorkers
    /\ NoScan

\* if max_servers: servers = servers[:max_servers]
ScrapeParse ==
    /\ pc = "scrape_parse"
    /\ servers' = IF options.max_servers /= <<>> /\ options.max_servers[1] /= 0
                  THEN SubSeq(servers, 1, Min(options.max_servers[1], Len(servers)))
                  ELSE servers
    /\ pc' = "scrape_loop"
    /\ UNCHANGED <<scraped, successful_scrapes, failed_scrapes, errors, options>>
    /\ UNCHANGED <<server, extraction_log, log_shared, files_processed, nfiles, idx,
                   confidence_score, readme_content, all_files, traverseVars>>
    /\ UNCHANGED <<workers, scanVars>>

\* GitHubCrawler.enhance_server: the server as it is, or marked inaccessible
\* with a message
EnhanceOutcomes(srv) ==
    { srv,
      [srv EXCEPT !.error_message = "Error enhancing server metadata",
                  !.is_accessible = FALSE] }

\* extract_tools_from_server: the server as it is, or with an error message
\* set by one of its handlers
ExtractOutcomes(srv) ==
    IF srv.server_type = "reference"
    THEN { srv,
           [srv EXCEPT !.error_message = "Reference server directory not found"],
           RecordError(srv, "Error extracting tools") }
    ELSE { srv, RecordError(srv, "Error extracting from GitHub") }

\* the server after the calls of the try block that did not raise
Processed(srv) ==
    LET enhanced == IF options.enhance_metadata THEN EnhanceOutcomes(srv) ELSE {srv}
    IN  UNION { IF options.extract_tools THEN ExtractOutcomes(s) ELSE {s} :
                  s \in enhanced }

\* the success test looking at accessibility only
IsSuccessful_AccessibleOnly(srv) == srv.is_accessible

\* if server.is_accessible and not server.error_message
IsSuccessful(srv) == srv.is_accessible /\ srv.error_message \in {"None", ""}

\* one pass of the loop in which the try block runs to its end
ScrapeServerCounted ==
    /\ pc = "scrape_loop"
    /\ scraped < Len(servers)
    /\ \E s \in Processed(servers[scraped + 1]):
         /\ servers' = [servers EXCEPT ![scraped + 1] = s]
         /\ IF IsSuccessful(s)
            THEN /\ successful_scrapes' = successful_scrapes + 1
                 /\ UNCHANGED <<failed_scrapes, errors>>
            ELSE /\ failed_scrapes' = failed_scrapes + 1
                 /\ errors' = IF s.error_message \notin {"None", ""}
                              THEN Append(errors, <<ToString(scraped + 1), s.error_message>>)
                              ELSE errors
                 /\ UNCHANGED successful_scrapes
    /\ scraped' = scraped + 1
    /\ UNCHANGED <<pc, options>>
    /\ UNCHANGED <<server, extraction_log, log_shared, files_processed, nfiles, idx,
                   confidence_score, readme_content, all_files, traverseVars>>
    /\ UNCHANGED <<workers, scanVars>>

\* the messages str(e) of an exception raised inside the try block
RaisedMessages == {"categorize failed", ""}

\* one pass of the loop in which a call of the try block raises, after the
\* calls before it have acted on the server: the except clause
ScrapeServerRaises ==
    /\ pc = "scrape_loop"
    /\ scraped < Len(servers)
    /\ \E s \in {servers[scraped + 1]} \cup Processed(servers[scraped + 1]),
          e \in RaisedMessages:
         /\ servers' = [servers EXCEPT ![scraped + 1] =
                          [s EXCEPT !.error_message = e, !.is_accessible = FALSE]]
         /\ errors' = Append(errors, <<ToString(scraped + 1), e>>)
    /\ failed_scrapes' = failed_scrapes + 1
    /\ scraped' = scraped + 1
    /\ UNCHANGED <<pc, successful_scrapes, options>>
    /\ UNCHANGED <<server, extraction_log, log_shared, files_processed, nfiles, idx,
                   confidence_score, readme_content, all_files, traverseVars>>
    /\ UNCHANGED <<workers, scanVars>>

\* results = ScrapingResults(total_servers=len(servers), ...); return results
ScrapeReturn ==
    /\ pc = "scrape_loop"
    /\ scraped = Len(servers)
    /\ pc' = "scrape_done"
    /\ UNCHANGED scrapeVars
    /\ UNCHANGED <<server, extraction_log, log_shared, files_processed, nfiles, idx,
                   confidence_score, readme_content, all_files, traverseVars>>
    /\ UNCHANGED <<workers, scanVars>>

NextScrape ==
    \/ ScrapeParse
    \/ ScrapeServerCounted
    \/ ScrapeServerRaises
    \/ ScrapeReturn

SpecScrape == InitScrape /\ [][NextScrape]_vars

\* the servers of the list that are accessible and carry no error message
SuccessfulServers ==
    { i \in 1..Len(servers) : servers[i].is_accessible
                                /\ servers[i].error_message \in {"None", ""} }

\* C16: scrape_all passes every server of the list and, whichever servers
\* fail or raise, returns counters with successful_scrapes + failed_scrapes =
\* total_servers, each server counted once, as successful iff it is
\* accessible and has no error message.
C16_EveryServerCountedOnce ==
    /\ pc \in {"scrape_loop", "scrape_done"} =>
         /\ successful_scrapes + failed_scrapes = scraped
         /\ successful_scrapes =
              Cardinality({ i \in SuccessfulServers : i <= scraped })
    /\ pc = "scrape_done" =>
         /\ scraped = Len(servers)
         /\ successful_scrapes + failed_scrapes = Len(servers)
         /\ successful_scrapes = Cardinality(SuccessfulServers)

\* a finished batch of three servers: one succeeded, one failed with an
\* extraction error, one raised
C16_Witness ==
    /\ pc = "scrape_done"
    /\ Len(servers) = 3
    /\ successful_scrapes = 1
    /\ failed_scrapes = 2
    /\ \E i \in 1..3: servers[i].error_message = "categorize failed"
    /\ \E i \in 1..3: servers[i].is_accessible
                        /\ servers[i].error_message = "Error extracting from GitHub"

---------------------------------------------------------------------------
(* _get_all_files_recursive: the traversal of a repository tree.  A name is *)
(* a sequence of characters, a path the sequence of the names from the     *)
(* root; the remote answers every request with the listing or the content  *)
(* of the tree below, or fails                                             *)

\* self.max_retries
max_retries == 3

\* the default of the parameter max_depth
max_depth == 3

\* t occurs in s (Python "t in s")
Contains(t, s) ==
    \E i \in 1..(Len(s) - Len(t) + 1): SubSeq(s, i, i + Len(t) - 1) = t

relevant_extensions ==
    {
      <<".", "p", "y">>, <<".", "t", "s">>, <<".", "j", "s">>, <<".", "g", "o">>,
      <<".", "r", "s">>, <<".", "c", "s">>, <<".", "c", "s", "x">>, <<".", "j", "a", "v", "a">>,
      <<".", "t", "s", "x">>, <<".", "j", "s", "x">>, <<".", "m", "j", "s">>, <<".", "c", "j", "s">> }

skip_patterns ==
    {
      <<"t", "e", "s", "t">>, <<"s", "p", "e", "c">>,
      <<"_", "_", "t", "e", "s", "t", "_", "_">>, <<".", "t", "e", "s", "t", ".">>,
      <<".", "s", "p", "e", "c", ".">>, <<"b", "u", "i", "l", "d">>,
      <<"d", "i", "s", "t">>, <<"n", "o", "d", "e", "_", "m", "o", "d", "u", "l", "e", "s">>,
      <<".", "g", "i", "t">>, <<"w", "e", "b", "p", "a", "c", "k">>,
      <<"b", "a", "b", "e", "l">>, <<"e", "s", "l", "i", "n", "t">>,
      <<"p", "r", "e", "t", "t", "i", "e", "r">> }

\* EnhancedToolExtractor._is_relevant_file
_is_relevant_file(filename) ==
    LET filename_lower == Lower(filename)
    IN  /\ \E ext \in relevant_extensions: IsSuffix(ext, filename_lower)
        /\ ~\E pattern \in skip_patterns: Contains(pattern, filename_lower)

skip_dirs ==
    {
      <<"n", "o", "d", "e", "_", "m", "o", "d", "u", "l", "e", "s">>, <<".", "g", "i", "t">>,
      <<"b", "u", "i", "l", "d">>, <<"d", "i", "s", "t">>,
      <<"_", "_", "p", "y", "c", "a", "c", "h", "e", "_", "_">>, <<".", "p", "y", "t", "e", "s", "t", "_", "c", "a", "c", "h", "e">>,
      <<"c", "o", "v", "e", "r", "a", "g", "e">>, <<".", "n", "y", "c", "_", "o", "u", "t", "p", "u", "t">>,
      <<"t", "a", "r", "g", "e", "t">>, <<"b", "i", "n">>,
      <<"o", "b", "j">>, <<"v", "e", "n", "d", "o", "r">>,
      <<".", "v", "s", "c", "o", "d", "e">>, <<".", "i", "d", "e", "a">> }

\* EnhancedToolExtractor._should_skip_directory
_should_skip_directory(dirname) == Lower(dirname) \in skip_dirs

\* entries of a listing
FileEntry(name, content) == [type |-> "file", name |-> name, content |-> content]

DirEntry(name) == [type |-> "dir", name |-> name, content |-> PyEmpty]

Dist == <<"D", "i", "s", "t">>

Src == <<"s", "r", "c">>

Lib == <<"l", "i", "b">>

L2 == <<"l", "2">>

L3 == <<"l", "3">>

L4 == <<"l", "4">>

Tests == <<"t", "e", "s", "t", "s">>

\* the tree of the repository (of the local checkout, for a reference server):
\*   a.py  latest.py  Dist/m.js  src/b.go  src/l2/l3/c.rs  src/l2/l3/l4/d.py
\*   lib/e.ts  lib/r.md  tests/a.py
Listing(path) ==
    CASE path = <<>> ->
           << FileEntry(<<"a", ".", "p", "y">>, PyAddTool), FileEntry(<<"l", "a", "t", "e", "s", "t", ".", "p", "y">>, PyEmpty),
              DirEntry(Dist), DirEntry(Src), DirEntry(Lib), DirEntry(Tests) >>
      [] path = <<Dist>> -> << FileEntry(<<"m", ".", "j", "s">>, JsResources) >>
      [] path = <<Src>> -> << FileEntry(<<"b", ".", "g", "o">>, GoTwice), DirEntry(L2) >>
      [] path = <<Src, L2>> -> << DirEntry(L3) >>
      [] path = <<Src, L2, L3>> ->
           << FileEntry(<<"c", ".", "r", "s">>, RsPrompt), DirEntry(L4) >>
      [] path = <<Src, L2, L3, L4>> -> << FileEntry(<<"d", ".", "p", "y">>, PyTwoTools) >>
      [] path = <<Lib>> ->
           << FileEntry(<<"e", ".", "t", "s">>, TsEnum), FileEntry(<<"r", ".", "m", "d">>, PyEmpty) >>
      [] path = <<Tests>> -> << FileEntry(<<"a", ".", "p", "y">>, PyEmpty) >>
      [] OTHER -> <<>>

Dirs ==
    { <<>>, <<Dist>>, <<Src>>, <<Src, L2>>, <<Src, L2, L3>>, <<Src, L2, L3, L4>>,
      <<Lib>>, <<Tests>> }

\* the dictionary recording the entry's name in place of its path
FileInfo_NameOnly(path, entry) ==
    [name |-> entry.name, path |-> <<entry.name>>, content |-> entry.content]

\* the files dictionary appended for an entry of the listing of path
FileInfo(path, entry) ==
    [name |-> entry.name, path |-> Append(path, entry.name), content |-> entry.content]

\* an activation of _traverse_directory(path, current_depth): retry is the
\* loop variable, pos the number of entries of contents already visited
Frame(path, current_depth) ==
    [path |-> path, current_depth |-> current_depth, retry |-> 0, pos |-> 0,
     phase |-> "request"]

Top == stack[Len(stack)]

Popped == SubSeq(stack, 1, Len(stack) - 1)

Requested(d) == [requests EXCEPT ![d].count = @ + 1]

InitTraverse ==
    /\ pc = "start"
    /\ \E t \in {"reference", "third_party"}: server = NewServer(t, "None")
    /\ extraction_log = <<>>
    /\ log_shared = FALSE
    /\ files_processed = 0
    /\ nfiles = 0
    /\ idx = 0
    /\ confidence_score = -1
    /\ readme_content = Readme("unfetched", <<>>)
    /\ all_files = <<>>
    /\ files = <<>>
    /\ stack = <<>>
    /\ extraction_stats = [total_files_processed |-> 0, successful_extractions |-> 0,
                           failed_extractions |-> 0,
                           rate_limit_hits |-> 0]
    /\ requests = [d \in Dirs |-> [count |-> 0, listed |-> FALSE]]
    /\ reads = <<>>
    /\ faults = 0
    /\ NoScrape
    /\ NoWorkers
    /\ NoScan

\* files = []; _traverse_directory(start_path)
TraverseStart ==
    /\ pc = "start"
    /\ server.server_type /= "reference"
    /\ files' = <<>>
    /\ stack' = <<Frame(<<>>, 0)>>
    /\ pc' = "traverse"
    /\ UNCHANGED <<extraction_stats, requests, reads, faults>>
    /\ UNCHANGED <<server, extraction_log, log_shared, files_processed, nfiles, idx,
                   confidence_score, readme_content, all_files, scrapeVars>>
    /\ UNCHANGED <<workers, scanVars>>

\* the depth test passing one level below the bound
TooDeep_OneLevelLate(current_depth) == current_depth > max_depth + 1

\* current_depth > max_depth
TooDeep(current_depth) == current_depth > max_depth

\* if current_depth > max_depth: return
TooDeepReturn ==
    /\ pc = "traverse"
    /\ stack /= <<>>
    /\ Top.phase = "request"
    /\ TooDeep(Top.current_depth)
    /\ stack' = Popped
    /\ UNCHANGED <<files, extraction_stats, requests, reads, faults>>
    /\ UNCHANGED <<extractVars, scrapeVars>>
    /\ UNCHANGED <<workers, scanVars>>

\* a request of the retry loop can be made
CanRequest ==
    /\ pc = "traverse"
    /\ stack /= <<>>
    /\ Top.phase = "request"
    /\ ~TooDeep(Top.current_depth)

\* contents = repo.get_contents(path) returns the listing
ListDirectory ==
    /\ CanRequest
    /\ requests' = [Requested(Top.path) EXCEPT ![Top.path].listed = TRUE]
    /\ stack' = Append(Popped, [Top EXCEPT !.phase = "iterate"])
    /\ UNCHANGED <<files, extraction_stats, reads, faults>>
    /\ UNCHANGED <<extractVars, scrapeVars>>
    /\ UNCHANGED <<workers, scanVars>>

\* an except clause that always goes on to another pass
AfterFailure_NoCeiling == Append(Popped, [Top EXCEPT !.retry = @ + 1])

\* the end of an except clause: the next pass of "for retry in
\* range(self.max_retries)", or break on the last one
AfterFailure ==
    IF Top.retry < max_retries - 1
    THEN Append(Popped, [Top EXCEPT !.retry = @ + 1])
    ELSE Popped

\* get_contents raises RateLimitExceededException
ListDirectoryRateLimited ==
    /\ CanRequest
    /\ faults < MaxFaults
    /\ faults' = faults + 1
    /\ requests' = Requested(Top.path)
    /\ extraction_stats' = [extraction_stats EXCEPT !.rate_limit_hits = @ + 1]
    /\ stack' = AfterFailure
    /\ UNCHANGED <<files, reads>>
    /\ UNCHANGED <<extractVars, scrapeVars>>
    /\ UNCHANGED <<workers, scanVars>>

\* get_contents raises another GithubException
ListDirectoryApiError ==
    /\ CanRequest
    /\ faults < MaxFaults
    /\ faults' = faults + 1
    /\ requests' = Requested(Top.path)
    /\ stack' = AfterFailure
    /\ UNCHANGED <<files, extraction_stats, reads>>
    /\ UNCHANGED <<extractVars, scrapeVars>>
    /\ UNCHANGED <<workers, scanVars>>

\* get_contents raises an exception that is no GithubException (a connection
\* error of the HTTP layer): no clause of _traverse_directory catches it, every
\* activation is left and the except clause of _extract_from_github_repo runs
ListDirectoryNetworkFailure ==
    /\ CanRequest
    /\ faults < MaxFaults
    /\ faults' = faults + 1
    /\ requests' = Requested(Top.path)
    /\ stack' = <<>>
    /\ files' = <<>>
    /\ server' = RecordError(server, "Error extracting from GitHub")
    /\ pc' = "returned"
    /\ UNCHANGED <<extraction_stats, reads>>
    /\ UNCHANGED <<extraction_log, log_shared, files_processed, nfiles, idx,
                   confidence_score, readme_content, all_files, scrapeVars>>
    /\ UNCHANGED <<workers, scanVars>>

\* the loop "for content in contents" has an entry to visit
CanVisit ==
    /\ pc = "traverse"
    /\ stack /= <<>>
    /\ Top.phase = "iterate"
    /\ Top.pos < Len(Listing(Top.path))

Entry == Listing(Top.path)[Top.pos + 1]

Advanced == Append(Popped, [Top EXCEPT !.pos = @ + 1])

IsCandidate(entry) == entry.type = "file" /\ _is_relevant_file(entry.name)

IsOpenDirectory(entry) == entry.type = "dir" /\ ~_should_skip_directory(entry.name)

\* file_content = content.decoded_content.decode('utf-8'); files.append(...)
ReadFile ==
    /\ CanVisit
    /\ IsCandidate(Entry)
    /\ files' = Append(files, FileInfo(Top.path, Entry))
    /\ extraction_stats' = [extraction_stats EXCEPT !.total_files_processed = @ + 1]
    /\ reads' = Append(reads, [path |-> Append(Top.path, Entry.name), outcome |-> "ok"])
    /\ stack' = Advanced
    /\ UNCHANGED <<requests, faults>>
    /\ UNCHANGED <<extractVars, scrapeVars>>
    /\ UNCHANGED <<workers, scanVars>>

\* the retrieval raises (rate limit, API error, connection or decoding
\* error): except Exception of the inner try
ReadFileFails ==
    /\ CanVisit
    /\ IsCandidate(Entry)
    /\ faults < MaxFaults
    /\ faults' = faults + 1
    /\ \E kind \in {"rate_limit", "error"}:
         reads' = Append(reads, [path |-> Append(Top.path, Entry.name), outcome |-> kind])
    /\ extraction_stats' = [extraction_stats EXCEPT !.failed_extractions = @ + 1]
    /\ stack' = Advanced
    /\ UNCHANGED <<files, requests>>
    /\ UNCHANGED <<extractVars, scrapeVars>>
    /\ UNCHANGED <<workers, scanVars>>

\* an entry that is neither a relevant file nor a directory to enter
SkipEntry ==
    /\ CanVisit
    /\ ~IsCandidate(Entry)
    /\ ~IsOpenDirectory(Entry)
    /\ stack' = Advanced
    /\ UNCHANGED <<files, extraction_stats, requests, reads, faults>>
    /\ UNCHANGED <<extractVars, scrapeVars>>
    /\ UNCHANGED <<workers, scanVars>>

\* _traverse_directory(content.path, current_depth + 1)
DescendDirectory ==
    /\ CanVisit
    /\ IsOpenDirectory(Entry)
    /\ stack' = Append(Advanced, Frame(Append(Top.path, Entry.name),
                                       Top.current_depth + 1))
    /\ UNCHANGED <<files, extraction_stats, requests, reads, faults>>
    /\ UNCHANGED <<extractVars, scrapeVars>>
    /\ UNCHANGED <<workers, scanVars>>

\* break  # Success, exit retry loop
FinishDirectory ==
    /\ pc = "traverse"
    /\ stack /= <<>>
    /\ Top.phase = "iterate"
    /\ Top.pos = Len(Listing(Top.path))
    /\ stack' = Popped
    /\ UNCHANGED <<files, extraction_stats, requests, reads, faults>>
    /\ UNCHANGED <<extractVars, scrapeVars>>
    /\ UNCHANGED <<workers, scanVars>>

\* return files; all_files = ...; extraction_log = []; files_processed = 0
TraverseReturn ==
    /\ pc = "traverse"
    /\ stack = <<>>
    /\ nfiles' = Len(files)
    /\ extraction_log' = <<>>
    /\ files_processed' = 0
    /\ idx' = 0
    /\ pc' = "gh_loop"
    /\ UNCHANGED <<server, log_shared, confidence_score, readme_content, all_files>>
    /\ UNCHANGED <<traverseVars, scrapeVars>>
    /\ UNCHANGED <<workers, scanVars>>

\* one pass of "for file_info in all_files" over the files of the traversal
TraversedProcessFile ==
    /\ pc = "gh_loop"
    /\ idx < nfiles
    /\ all_files' = Append(all_files, files[idx + 1].content)
    /\ ProcessFileContent(files[idx + 1].content)
    /\ idx' = idx + 1
    /\ UNCHANGED <<pc, log_shared, nfiles, confidence_score, readme_content>>
    /\ UNCHANGED <<traverseVars, scrapeVars>>
    /\ UNCHANGED <<workers, scanVars>>

\* the files below a directory of the local checkout, directories first to last
RECURSIVE Walk(_, _)
Walk(path, i) ==
    IF i > Len(Listing(path)) THEN <<>>
    ELSE LET entry == Listing(path)[i]
         IN  (IF entry.type = "file"
              THEN <<FileInfo(path, entry)>>
              ELSE Walk(Append(path, entry.name), 1)) \o Walk(path, i + 1)

\* list(server_path.glob("**/*" + ext))
Glob(ext) == SelectSeq(Walk(<<>>, 1), LAMBDA f: IsSuffix(ext, f.name))

\* ts_files = list(glob("**/*.ts")); js_files = list(glob("**/*.js"))
LocalGlob ==
    /\ pc = "start"
    /\ server.server_type = "reference"
    /\ files' = Glob(<<".", "t", "s">>) \o Glob(<<".", "j", "s">>)
    /\ nfiles' = Len(files')
    /\ idx' = 0
    /\ pc' = "ref_loop"
    /\ UNCHANGED <<stack, extraction_stats, requests, reads, faults>>
    /\ UNCHANGED <<server, extraction_log, log_shared, files_processed,
                   confidence_score, readme_content, all_files, scrapeVars>>
    /\ UNCHANGED <<workers, scanVars>>

\* one pass of "for ts_file in ts_files + js_files" over the globbed files
GlobbedProcessFile ==
    /\ pc = "ref_loop"
    /\ idx < nfiles
    /\ LET f == files[idx + 1].content
           r == _parse_typescript_file(f)
       IN  /\ all_files' = Append(all_files, f)
           /\ server' = [server EXCEPT !.tools = @ \o r.tools,
                                        !.prompts = @ \o r.prompts,
                                        !.resources = @ \o r.resources]
    /\ idx' = idx + 1
    /\ UNCHANGED <<pc, extraction_log, log_shared, files_processed, nfiles,
                   confidence_score, readme_content>>
    /\ UNCHANGED <<traverseVars, scrapeVars>>
    /\ UNCHANGED <<workers, scanVars>>

NextTraverse ==
    \/ TraverseStart
    \/ TooDeepReturn
    \/ ListDirectory
    \/ ListDirectoryRateLimited
    \/ ListDirectoryApiError
    \/ ListDirectoryNetworkFailure
    \/ ReadFile
    \/ ReadFileFails
    \/ SkipEntry
    \/ DescendDirectory
    \/ FinishDirectory
    \/ TraverseReturn
    \/ TraversedProcessFile
    \/ GithubAttachLog
    \/ GithubScore
    \/ GithubFallbackCheck
    \/ ReadmeFallback
    \/ LocalGlob
    \/ GlobbedProcessFile
    \/ ReferenceReturn

SpecTraverse == InitTraverse /\ [][NextTraverse]_vars

\* a statement of _get_all_files_recursive
TraverseStep == pc = "traverse" /\ NextTraverse

\* the call runs on one thread that is never suspended for good: while a
\* statement of the traversal can be executed, one is
SpecTraverseFair == SpecTraverse /\ WF_vars(TraverseStep)


---------------------------------------------------------------------------
(* Properties of the traversal *)

\* the traversal has ended, by return or by an exception
TraversalOver == pc \notin {"start", "traverse"} /\ server.server_type /= "reference"

\* the directories whose every request failed, max_retries of them
Abandoned == { d \in Dirs : requests[d].count = max_retries /\ ~requests[d].listed }

\* the directories the traversal is to list: those within max_depth, outside
\* every excluded directory, whose parent was listed
Parent(d) == SubSeq(d, 1, Len(d) - 1)

ToBeListed ==
    { d \in Dirs : /\ Len(d) <= max_depth
                   /\ \A k \in 1..Len(d): ~_should_skip_directory(d[k])
                   /\ d /= <<>> => requests[Parent(d)].listed }

OkReads == { i \in 1..Len(reads) : reads[i].outcome = "ok" }

\* C17: a directory whose listing keeps failing transiently (rate limit, API
\* error or network failure) is requested at most max_retries times, after
\* which only its subtree is given up: the other directories are still
\* listed, the files collected are kept and the traversal returns normally.
C17_FailingDirectoryAbandonedAlone ==
    /\ \A d \in Dirs: requests[d].count <= max_retries
    /\ TraversalOver =>
         /\ server.error_message = "None"
         /\ \A d \in ToBeListed: requests[d].count >= 1
         /\ Len(files) = Cardinality(OkReads)

\* what holds of the failures the retry loop catches: no directory is
\* requested more than max_retries times, and a traversal that returns has
\* requested every directory it is to list and kept every file it read
TraversalReturned == pc \in {"gh_loop", "gh_score", "gh_fallback_check", "readme_fallback"}

CaughtFailuresAbandonSubtree ==
    /\ \A d \in Dirs: requests[d].count <= max_retries
    /\ TraversalReturned =>
         /\ \A d \in ToBeListed: requests[d].count >= 1
         /\ Len(files) = Cardinality(OkReads)

\* C18: when the retry ceiling was exhausted for a directory, the server's
\* extraction log holds an entry about the abandoned subtree once the
\* extraction of the server has finished.
C18_AbandonedSubtreeLogged ==
    (pc = "returned" /\ server.server_type /= "reference" /\ Abandoned /= {}) =>
      \E i \in 1..Len(server.extraction_log):
        server.extraction_log[i][1] \in {"Max retries exceeded for path ",
                                         "Error accessing path "}

RateLimitedReads == { i \in 1..Len(reads) : reads[i].outcome = "rate_limit" }

\* the retrievals of the content of the file at path p
ReadsOf(p) == { i \in 1..Len(reads) : reads[i].path = p }

\* C19: a rate-limit failure met while retrieving the content of a candidate
\* file is handled like one met by a listing: the hit is counted and the
\* retrieval is tried again, up to the retry ceiling, instead of the file
\* being dropped after one failed attempt.
C19_RateLimitedReadRetried ==
    /\ extraction_stats.rate_limit_hits >= Cardinality(RateLimitedReads)
    /\ TraversalOver =>
         \A i \in RateLimitedReads:
           \/ \E j \in ReadsOf(reads[i].path): j > i
           \/ Cardinality(ReadsOf(reads[i].path)) >= max_retries

\* C20: in a traversal, local or remote, no directory named in the exclusion
\* set is entered: none is requested and no file below one becomes a source
\* unit.
C20_ExcludedDirectoryNeverEntered ==
    /\ \A d \in Dirs:
         (d /= <<>> /\ _should_skip_directory(d[Len(d)])) => requests[d].count = 0
    /\ \A i \in 1..Len(files):
         \A k \in 1..(Len(files[i].path) - 1):
           ~_should_skip_directory(files[i].path[k])

---------------------------------------------------------------------------
(* Properties of the file filter *)

\* the parts of a name between its dots
RECURSIVE Tokens(_)
Tokens(name) ==
    IF FindChar(name, ".", 1) = 0 THEN {name}
    ELSE {SubSeq(name, 1, FindChar(name, ".", 1) - 1)}
           \cup Tokens(SubSeq(name, FindChar(name, ".", 1) + 1, Len(name)))

\* a path component of an excluded kind: a directory named in skip_dirs, a
\* component named as an exclusion pattern, or a name with such a word
\* between its dots (x.test.js); tests is the plural the property names
ExcludedComponent(name) ==
    LET words == skip_patterns \cup skip_dirs \cup {Tests}
    IN  Lower(name) \in words \/ Tokens(Lower(name)) \cap words /= {}

SupportedExtension(name) == \E ext \in relevant_extensions: IsSuffix(ext, Lower(name))

\* the files of the directories the traversal has listed
ListedFiles ==
    UNION { { Append(d, Listing(d)[k].name) :
                k \in { k \in 1..Len(Listing(d)) : Listing(d)[k].type = "file" } } :
            d \in { d \in Dirs : requests[d].listed } }

\* the files whose content the traversal has asked for
CandidatePaths == { reads[i].path : i \in 1..Len(reads) }

\* C21: a file is a candidate iff its extension is supported and no component
\* of its path is of an excluded kind; so no file under tests/ is a candidate,
\* and a name holding an excluded word inside a longer word is not rejected.
C21_CandidateIffSupportedAndNotExcluded ==
    TraversalReturned =>
      \A p \in ListedFiles:
        p \in CandidatePaths
          <=> (SupportedExtension(p[Len(p)])
                 /\ \A k \in 1..Len(p): ~ExcludedComponent(p[k]))

\* the extensions _is_relevant_file accepts and the dispatch has no branch for
UndispatchedExtensions == {".tsx", ".jsx", ".mjs", ".cjs"}

\* C22: a pass over a candidate file whose extension has no rule set in the
\* dispatch (.tsx, .jsx, .mjs, .cjs) adds no declaration, lets the loop go on
\* and appends an entry recording the gap to the extraction log.
C22_UndispatchedExtensionLogged ==
    [][(FilePass /\ all_files'[idx'].ext \in UndispatchedExtensions)
         => /\ DeclarationsUnchanged
            /\ pc' = "gh_loop"
            /\ Len(extraction_log') = Len(extraction_log) + 1]_vars

---------------------------------------------------------------------------
(* Properties of the documentation fallback *)

\* the list lines of the Tools sections of a document
ListLines(doc) == Concat(doc)

\* a list line whose name has at least 3 characters and is not generic
QualifyingLine(s) ==
    Len(s.name) >= 3
      /\ Lower(s.name) \notin { <<"t", "o", "o", "l">>, <<"t", "o", "o", "l", "s">>,
                                <<"f", "u", "n", "c", "t", "i", "o", "n">>,
                                <<"m", "e", "t", "h", "o", "d">> }

QualifyingLines(doc) == SelectSeq(ListLines(doc), QualifyingLine)

ToolsNamed(name, desc) ==
    { i \in 1..Len(server.tools):
        server.tools[i].name = name /\ server.tools[i].description = desc }

FallbackMined == pc = "returned" /\ readme_content.state = "text"

\* C23: the tools mined from the documentation are one per qualifying list
\* line of its Tools sections, with that line's name and description; no line
\* yields two declarations.
C23_OneToolPerListLine ==
    FallbackMined =>
        /\ Len(server.tools) = Len(QualifyingLines(readme_content.doc))
        /\ \A k \in 1..Len(QualifyingLines(readme_content.doc)):
             LET s == QualifyingLines(readme_content.doc)[k]
             IN  ToolsNamed(s.name, Strip(s.desc)) /= {}

---------------------------------------------------------------------------
(* Workers sharing one extractor: self.extraction_stats[key] += 1 *)

Counters == {"total_files_processed", "failed_extractions", "rate_limit_hits"}

\* a worker between statements ("idle") or between the subscript load and the
\* subscript store of one += ("loaded") on the counter it updates, the
\* increments it still has to make and the increments it has completed
Worker(at, key, loaded, left, done) ==
    [at |-> at, key |-> key, loaded |-> loaded, left |-> left, done |-> done]

InitCounter ==
    /\ pc = "start"
    /\ server = NewServer("third_party", "None")
    /\ extraction_log = <<>>
    /\ log_shared = FALSE
    /\ files_processed = 0
    /\ nfiles = 0
    /\ idx = 0
    /\ confidence_score = -1
    /\ readme_content = Readme("unfetched", <<>>)
    /\ all_files = <<>>
    /\ NoTraversal
    /\ NoScrape
    /\ NoScan
    /\ \E n \in 1..MaxWorkers, key \in Counters:
         \E left \in [1..n -> 1..MaxIncrements]:
            workers = [w \in 1..n |-> Worker("idle", key, 0, left[w], 0)]

\* the read of self.extraction_stats[key] that starts a +=
LoadCounter(w) ==
    /\ workers[w].at = "idle"
    /\ workers[w].left > 0
    /\ workers' = [workers EXCEPT ![w].at = "loaded",
                                  ![w].loaded = extraction_stats[workers[w].key]]
    /\ UNCHANGED <<extractVars, traverseVars, scrapeVars, scanVars>>

\* the write self.extraction_stats[key] = loaded + 1 that ends it
StoreCounter(w) ==
    /\ workers[w].at = "loaded"
    /\ extraction_stats' =
         [extraction_stats EXCEPT ![workers[w].key] = workers[w].loaded + 1]
    /\ workers' = [workers EXCEPT ![w].at = "idle", ![w].left = @ - 1,
                                  ![w].done = @ + 1]
    /\ UNCHANGED <<files, stack, requests, reads, faults>>
    /\ UNCHANGED <<extractVars, scrapeVars, scanVars>>

NextCounter ==
    \/ \E w \in 1..Len(workers): LoadCounter(w)
    \/ \E w \in 1..Len(workers): StoreCounter(w)

SpecCounter == InitCounter /\ [][NextCounter]_vars

---------------------------------------------------------------------------
(* Properties of the shared counters *)

\* the increments the first n workers completed on a counter
RECURSIVE Increments(_, _)
Increments(key, n) ==
    IF n = 0 THEN 0
    ELSE (IF workers[n].key = key THEN workers[n].done ELSE 0) + Increments(key, n - 1)

WorkersFinished ==
    /\ workers /= <<>>
    /\ \A w \in 1..Len(workers): workers[w].at = "idle" /\ workers[w].left = 0

\* C24: when every worker has finished, each counter holds the total number of
\* increments the workers performed on it.
C24_NoLostUpdate ==
    WorkersFinished =>
        \A key \in Counters: extraction_stats[key] = Increments(key, Len(workers))

---------------------------------------------------------------------------
(* Properties of the max_servers option *)

MaxServersGiven == options.max_servers /= <<>>

\* C25: called with max_servers = n, scrape_all keeps min(n, registry size)
\* servers, the number it reports as total_servers, and processes at most n,
\* for every n >= 0.
C25_AtMostMaxServers ==
    [][MaxServersGiven =>
         /\ pc = "scrape_parse" =>
              Len(servers') = Min(options.max_servers[1], Len(servers))
         /\ scraped' <= options.max_servers[1]]_vars

---------------------------------------------------------------------------
(* Properties of the depth bound *)

RemoteTraversal == server.server_type = "third_party"

\* the number of levels a directory lies below the root
Levels(path) == Len(path)

\* the directory a collected file lies in
DirectoryOf(f) == SubSeq(f.path, 1, Len(f.path) - 1)

\* C26: in a remote traversal no listing is requested for a directory more
\* than max_depth levels below the root, and every file collected lies in a
\* directory at most max_depth levels below the root.
C26_DepthBounded ==
    RemoteTraversal =>
        /\ \A d \in Dirs: Levels(d) > max_depth => requests[d].count = 0
        /\ \A i \in 1..Len(files): Levels(DirectoryOf(files[i])) <= max_depth

\* the directory at the bound was listed and its file collected, the one below
\* it was reached and left unlisted
C26_Witness ==
    /\ RemoteTraversal
    /\ TraversalReturned
    /\ requests[<<Src, L2, L3>>].listed
    /\ \E i \in 1..Len(files): files[i].path = <<Src, L2, L3, <<"c", ".", "r", "s">>>>
    /\ requests[<<Src, L2, L3, L4>>].count = 0

---------------------------------------------------------------------------
(* Properties of the returned list *)

\* C27: the list a remote traversal builds, and so the list it returns, holds
\* each file path at most once, also when a listing failed and was retried.
C27_PathsDistinct ==
    RemoteTraversal =>
        \A i, j \in 1..Len(files): files[i].path = files[j].path => i = j

\* a listing that failed was retried with success, and files of that directory
\* and of another one are in the list returned
C27_Witness ==
    /\ RemoteTraversal
    /\ TraversalReturned
    /\ \E d \in Dirs:
         /\ requests[d].count >= 2
         /\ requests[d].listed
         /\ \E i, j \in 1..Len(files):
              DirectoryOf(files[i]) = d /\ DirectoryOf(files[j]) /= d

---------------------------------------------------------------------------
(* Termination of the traversal *)

RECURSIVE RequestsOf(_)
RequestsOf(ds) ==
    IF ds = {} THEN 0
    ELSE LET d == CHOOSE x \in ds: TRUE
         IN  requests[d].count + RequestsOf(ds \ {d})

WithinDepth == { d \in Dirs : Levels(d) <= max_depth }

RequestsBounded ==
    /\ \A d \in Dirs: requests[d].count <= max_retries
    /\ RequestsOf(Dirs) <= max_retries * Cardinality(WithinDepth)

Traversing == pc = "traverse"

---------------------------------------------------------------------------
(* _parse_typescript_file, the rule for tools declared in the ListTools    *)
(* handler's return statement: the scan for the bracket closing the tools  *)
(* array. The text scanned is content[handler_start:], over the characters *)
(* "[" and "]" and "t", which stands for the text of one tool object       *)
(* { name: "t", description: "d" }.                                        *)

ScanChars == {"[", "]", "t"}

ScanTexts == UNION { [1..n -> ScanChars] : n \in 0..MaxText }

\* handler_start = handler_match.end(); bracket_count = 1; i = handler_start
InitScan ==
    /\ pc = "scan"
    /\ server = NewServer("reference", "None")
    /\ extraction_log = <<>>
    /\ log_shared = FALSE
    /\ files_processed = 0
    /\ nfiles = 0
    /\ idx = 0
    /\ confidence_score = -1
    /\ readme_content = Readme("unfetched", <<>>)
    /\ all_files = <<>>
    /\ NoTraversal
    /\ NoScrape
    /\ NoWorkers
    /\ scan_text \in ScanTexts
    /\ scan_pos = 0
    /\ bracket_count = 1
    /\ tools_section = None

\* while i < len(content) and bracket_count > 0
Scanning == pc = "scan" /\ scan_pos < Len(scan_text) /\ bracket_count > 0

\* one pass of the while loop
ScanStep ==
    /\ Scanning
    /\ bracket_count' =
         CASE scan_text[scan_pos + 1] = "[" -> bracket_count + 1
           [] scan_text[scan_pos + 1] = "]" -> bracket_count - 1
           [] OTHER -> bracket_count
    /\ scan_pos' = scan_pos + 1
    /\ UNCHANGED <<scan_text, tools_section>>
    /\ UNCHANGED <<extractVars, traverseVars, scrapeVars, workers>>

\* the section through the closing bracket
ToolsSection_ThroughBracket(text, pos) == SubSeq(text, 1, pos)

\* content[handler_start:i-1]
ToolsSection(text, pos) == SubSeq(text, 1, pos - 1)

\* re.findall(tool_obj_pattern, tools_section): one match for each tool object
SectionSites(section) ==
    LET objs == SelectSeq(section, LAMBDA c: c = "t")
    IN  [k \in 1..Len(objs) |-> Site({"ts_handler"}, <<"t">>, <<"d">>)]

\* if bracket_count == 0: tools_section = ...; tools.append(...) for its objects
ScanEnd ==
    /\ pc = "scan"
    /\ ~Scanning
    /\ IF bracket_count = 0
       THEN /\ tools_section' = ToolsSection(scan_text, scan_pos)
            /\ server' = [server EXCEPT !.tools = @ \o HandlerTools(SectionSites(tools_section'))]
       ELSE UNCHANGED <<tools_section, server>>
    /\ pc' = "scanned"
    /\ UNCHANGED <<scan_text, scan_pos, bracket_count>>
    /\ UNCHANGED <<extraction_log, log_shared, files_processed, nfiles, idx,
                   confidence_score, readme_content, all_files>>
    /\ UNCHANGED <<traverseVars, scrapeVars, workers>>

NextScan == ScanStep \/ ScanEnd

SpecScan == InitScan /\ [][NextScan]_vars

\* the rule runs to its end once entered
SpecScanFair == SpecScan /\ WF_vars(NextScan)

---------------------------------------------------------------------------
(* Properties of the bracket scan *)

RECURSIVE CountIn(_, _, _)
CountIn(text, k, c) ==
    IF k = 0 THEN 0 ELSE (IF text[k] = c THEN 1 ELSE 0) + CountIn(text, k - 1, c)

\* the square brackets open after the first k characters, the one opening the
\* tools array included
OpenBrackets(k) == 1 + CountIn(scan_text, k, "[") - CountIn(scan_text, k, "]")

\* the positions at which the count of open brackets is zero
ClosingPositions == { k \in 1..Len(scan_text) : OpenBrackets(k) = 0 }

FirstClosing == CHOOSE k \in ClosingPositions: \A j \in ClosingPositions: k <= j

Scanned == pc = "scanned"

ScanResult ==
    Scanned =>
        IF ClosingPositions /= {}
        THEN /\ tools_section = SubSeq(scan_text, 1, FirstClosing - 1)
             /\ Len(server.tools) = CountIn(scan_text, FirstClosing - 1, "t")
        ELSE /\ tools_section = None
             /\ server.tools = <<>>

\* C29: the scan ends; the section it leaves is the text from the bracket
\* opening the tools array up to, and without, the first bracket at which the
\* count of open brackets is back at zero, and the tools are those of that
\* section; when the count is never back at zero, no section is taken and the
\* rule adds no tool.
C29_SectionUpToMatchingBracket == []ScanResult /\ <>Scanned

\* a nested array inside the tools array, text after the closing bracket, and
\* a tool on each side of it
C29_Witness ==
    /\ Scanned
    /\ scan_text = <<"t", "[", "]", "]", "t">>
    /\ tools_section = <<"t", "[", "]">>
    /\ Len(server.tools) = 1

---------------------------------------------------------------------------
(* Properties of the error message *)

\* C30: an error message recorded on the server before the call is never
\* replaced during it.
C30_RecordedErrorKept ==
    [][HasError(server) => server'.error_message = server.error_message]_vars

====
